---- MODULE Spec2Model ----
(***************************************************************************)
(* Dashboard client of the bilbot message API (src/frontend/app.js):       *)
(* pagination of the message list, query-string construction in fetchAPI,  *)
(* the stats normaliser and chart handles, and escapeHTML.                 *)
(***************************************************************************)
EXTENDS Integers, Sequences, FiniteSets, TLC

VARIABLES
    currentPage,     \* app.js:9   let currentPage = 1
    inflight,        \* URLs of the loadMessages fetches awaiting their response, in issue order
    messagesList,    \* content of #messages-list
    nextDisabled,    \* #next-page .disabled
    prevDisabled,    \* #prev-page .disabled
    pageInfo,        \* page number shown in #page-info (0: the markup's text, not yet written)
    event,           \* the handler that ran last
    lastResponse,    \* what the loadMessages fetch that resolved last settled with
    statsIssued,     \* number of loadStats calls made so far
    statsInflight,   \* number of /messages/stats fetches awaiting their response
    totalMessages,   \* text of #total-messages
    window,          \* window.channelsChart, window.authorsChart, window.timeChart
    charts,          \* every Chart instance constructed so far, in construction order
    searchInflight,  \* URLs of the searchMessages fetches awaiting their response
    searchResultsList,   \* content of #search-results-list
    lastSearchResponse,  \* what the search fetch that resolved last settled with
    storeSize,       \* number of records of the message store (read by SpecStable only)
    input,           \* argument of the function under study (SpecQuery, SpecEscape, SpecNorm)
    output           \* its result

msgVars == <<currentPage, inflight, messagesList, nextDisabled, prevDisabled,
             pageInfo, lastResponse>>

statsVars == <<statsIssued, statsInflight, totalMessages, window, charts>>

searchVars == <<searchInflight, searchResultsList, lastSearchResponse>>

pureVars == <<input, output>>

vars == <<msgVars, statsVars, searchVars, storeSize, pureVars, event>>

\* ------------------------------------------------------------------ bounds
pageSize == 20

MaxPage == 3

MaxInflight == 2

MaxStatsLoads == 2

MaxSearchInflight == 1

MaxParams == 2

MaxLen == 3

MaxEntries == 3

\* ------------------------------------------------------- JavaScript values
Null == [t |-> "null"]

Undefined == [t |-> "undefined"]

Str(s) == [t |-> "string", v |-> s]

Num(n) == [t |-> "number", v |-> n]

\* val !== '' (strict inequality: only the string '' is equal to '')
StrictNotEmptyString(val) == ~(val.t = "string" /\ val.v = "")

\* String(val), the conversion URLSearchParams.append applies to its value
ToJSString(val) ==
    CASE val.t = "string" -> val.v
      [] val.t = "number" -> ToString(val.v)
      [] val.t = "null" -> "null"
      [] val.t = "undefined" -> "undefined"

\* application/x-www-form-urlencoded serialisation of one name or value
\* (URLSearchParams.toString): a space becomes '+', letters and digits stay
FormEncode(s) == IF s = " " THEN "+" ELSE s

\* --------------------------------------------------------------- fetchAPI
\* params is the sequence of [key, val] in Object.keys order
\* faulty variant: loose inequality val != '' (0 == '' in JavaScript)
KeepParamLoose(val) ==
    /\ val.t # "null" /\ val.t # "undefined" /\ StrictNotEmptyString(val)
    /\ ~(val.t = "number" /\ val.v = 0)

\* faulty variant: the empty string passes the filter
KeepParamAllowsEmpty(val) == val.t # "null" /\ val.t # "undefined"

KeepParam(val) ==
    val.t # "null" /\ val.t # "undefined" /\ StrictNotEmptyString(val)

RECURSIVE SearchParams(_)
SearchParams(params) ==
    IF params = <<>> THEN <<>>
    ELSE LET p == Head(params)
             rest == SearchParams(Tail(params))
         IN IF KeepParam(p.val)
            THEN <<[key |-> p.key, value |-> ToJSString(p.val)]>> \o rest
            ELSE rest

\* searchParams.toString() as the sequence of its tokens
RECURSIVE QueryTokens(_)
QueryTokens(sp) ==
    IF sp = <<>> THEN <<>>
    ELSE LET one == <<FormEncode(Head(sp).key), "=", FormEncode(Head(sp).value)>>
         IN IF Tail(sp) = <<>> THEN one
            ELSE one \o <<"&">> \o QueryTokens(Tail(sp))

\* faulty variant: '?' appended whether or not the query is empty
FullUrlAlwaysQuery(endpoint, params) ==
    <<endpoint, "?">> \o QueryTokens(SearchParams(params))

\* fullUrl without the base: endpoint, then '?' and the query when it is non-empty
FullUrl(endpoint, params) ==
    LET qs == QueryTokens(SearchParams(params))
    IN IF qs # <<>> THEN <<endpoint, "?">> \o qs ELSE <<endpoint>>

\* What fetch() settles with, and what fetchAPI returns for it
NetworkError == [kind |-> "reject"]

HttpError(status) == [kind |-> "http", ok |-> FALSE, status |-> status]

HttpOk(body) ==
    [kind |-> "http", ok |-> TRUE, status |-> 200, parses |-> TRUE, json |-> body]

\* a 2xx response whose body is not JSON: response.json() rejects inside the try
BadJson ==
    [kind |-> "http", ok |-> TRUE, status |-> 200, parses |-> FALSE, json |-> <<>>]

Failures == {NetworkError, HttpError(500), BadJson}

FetchResult(response) ==
    IF response.kind = "reject" THEN Null
    ELSE IF ~response.ok THEN Null
    ELSE IF ~response.parses THEN Null
    ELSE [t |-> "json", v |-> response.json]

\* ----------------------------------------------------------- list endpoint
\* GET /messages answers with the records at offset+1 .. offset+n
RECURSIVE ParamOf(_, _)
ParamOf(url, key) ==
    IF Len(url) < 3 THEN ""
    ELSE IF url[1] = key /\ url[2] = "=" THEN url[3]
    ELSE ParamOf(Tail(url), key)

\* decimal numerals of the offsets and limits a request can carry
Decimal == [n \in 0..(MaxPage * pageSize) |-> ToString(n)]

ParseInt(s) ==
    IF \E n \in DOMAIN Decimal : Decimal[n] = s
    THEN CHOOSE n \in DOMAIN Decimal : Decimal[n] = s
    ELSE 0

ListBody(url, n) == [i \in 1..n |-> ParseInt(ParamOf(url, "offset")) + i]

\* list(limit, offset) over a store holding records 1..size
StorePage(size, url) ==
    LET offset == ParseInt(ParamOf(url, "offset"))
        limit == ParseInt(ParamOf(url, "limit"))
        left == IF size > offset THEN size - offset ELSE 0
    IN ListBody(url, IF left < limit THEN left ELSE limit)

ResponseLengths == {0, pageSize - 1, pageSize, pageSize + 1}

Responses(url) ==
    Failures \cup {HttpOk(ListBody(url, n)) : n \in ResponseLengths}

\* ------------------------------------------------------------ loadMessages
Loading == [kind |-> "loading"]

EmptyState == [kind |-> "empty-state"]

\* renderMessages: one card per message, in order
Cards(messages) == [kind |-> "cards", cards |-> messages]

NoResponse == [kind |-> "none"]

\* faulty variant: offset computed from the page number without the -1
MessagesParamsNextPage(page) ==
    <<[key |-> "limit", val |-> Num(pageSize)],
      [key |-> "offset", val |-> Num(page * pageSize)]>>

MessagesParams(page) ==
    <<[key |-> "limit", val |-> Num(pageSize)],
      [key |-> "offset", val |-> Num((page - 1) * pageSize)]>>

\* faulty variant: the fetch is issued without the placeholder being written
LoadMessagesIssueSilently(page) ==
    /\ UNCHANGED messagesList
    /\ inflight' = Append(inflight, FullUrl("/messages", MessagesParams(page)))

\* loadMessages up to its await: placeholder, offset from currentPage, fetch issued
LoadMessagesIssue(page) ==
    /\ messagesList' = Loading
    /\ inflight' = Append(inflight, FullUrl("/messages", MessagesParams(page)))

\* nextPageButton.disabled as loadMessages sets it from the fetched value
\* faulty variant: <= in place of <
NextDisabledOffByOne(messages) ==
    IF messages.t = "null" \/ Len(messages.v) = 0 THEN TRUE
    ELSE Len(messages.v) <= pageSize

NextDisabledFor(messages) ==
    IF messages.t = "null" \/ Len(messages.v) = 0 THEN TRUE
    ELSE Len(messages.v) < pageSize

\* faulty variant: a response that is not the window of currentPage is not rendered
MessagesListForCurrentPage(messages) ==
    IF messages.t = "null" \/ Len(messages.v) = 0 THEN EmptyState
    ELSE IF messages.v[1] # (currentPage - 1) * pageSize + 1 THEN messagesList
    ELSE Cards(messages.v)

MessagesListFor(messages) ==
    IF messages.t = "null" \/ Len(messages.v) = 0 THEN EmptyState
    ELSE Cards(messages.v)

\* faulty variant: label and Prev written from the page the request asked for
LoadMessagesResolveRequestedPage(i, response) ==
    LET messages == FetchResult(response)
        requested == ParseInt(ParamOf(inflight[i], "offset")) \div pageSize + 1
    IN /\ messagesList' = MessagesListFor(messages)
       /\ nextDisabled' = NextDisabledFor(messages)
       /\ prevDisabled' = (requested = 1)
       /\ pageInfo' = requested
       /\ inflight' = SubSeq(inflight, 1, i - 1) \o SubSeq(inflight, i + 1, Len(inflight))
       /\ lastResponse' = response
       /\ event' = "resolve"
       /\ UNCHANGED <<currentPage, statsVars, searchVars, storeSize, pureVars>>

\* loadMessages after its await, for the i-th fetch in flight
LoadMessagesResolve(i, response) ==
    LET messages == FetchResult(response)
    IN /\ messagesList' = MessagesListFor(messages)
       /\ nextDisabled' = NextDisabledFor(messages)
       /\ prevDisabled' = (currentPage = 1)
       /\ pageInfo' = currentPage
       /\ inflight' = SubSeq(inflight, 1, i - 1) \o SubSeq(inflight, i + 1, Len(inflight))
       /\ lastResponse' = response
       /\ event' = "resolve"
       /\ UNCHANGED <<currentPage, statsVars, searchVars, storeSize, pureVars>>

\* ------------------------------------------------------------ click handlers
\* faulty variant: the currentPage > 1 test left out
PrevPageUnguarded(page) == page - 1

PrevPage(page) == IF page > 1 THEN page - 1 ELSE page

RefreshClick ==
    /\ Len(inflight) < MaxInflight
    /\ LoadMessagesIssue(currentPage)
    /\ event' = "refresh"
    /\ UNCHANGED <<currentPage, nextDisabled, prevDisabled, pageInfo, lastResponse,
                   statsVars, searchVars, storeSize, pureVars>>

\* a disabled button fires no click event
PrevClick ==
    /\ ~prevDisabled
    /\ Len(inflight) < MaxInflight
    /\ currentPage' = PrevPage(currentPage)
    /\ IF currentPage' # currentPage
       THEN LoadMessagesIssue(currentPage')
       ELSE UNCHANGED <<messagesList, inflight>>
    /\ event' = "prev"
    /\ UNCHANGED <<nextDisabled, prevDisabled, pageInfo, lastResponse,
                   statsVars, searchVars, storeSize, pureVars>>

NextClick ==
    /\ ~nextDisabled
    /\ Len(inflight) < MaxInflight
    /\ currentPage < MaxPage
    /\ currentPage' = currentPage + 1
    /\ LoadMessagesIssue(currentPage')
    /\ event' = "next"
    /\ UNCHANGED <<nextDisabled, prevDisabled, pageInfo, lastResponse,
                   statsVars, searchVars, storeSize, pureVars>>

Sections == {"messages", "search", "stats"}

\* loadStats up to its await: the fetch is issued, nothing is displayed
LoadStatsIssue ==
    /\ statsIssued < MaxStatsLoads
    /\ statsIssued' = statsIssued + 1
    /\ statsInflight' = statsInflight + 1
    /\ UNCHANGED <<totalMessages, window, charts>>

\* click on a .filter-button; the section's class changes are not modelled
NavClick(targetSection) ==
    /\ IF targetSection = "messages"
       THEN /\ Len(inflight) < MaxInflight
            /\ LoadMessagesIssue(currentPage)
       ELSE UNCHANGED <<messagesList, inflight>>
    /\ IF targetSection = "stats"
       THEN LoadStatsIssue
       ELSE UNCHANGED statsVars
    /\ event' = "nav"
    /\ UNCHANGED <<currentPage, nextDisabled, prevDisabled, pageInfo, lastResponse,
                   searchVars, storeSize, pureVars>>

Navigate == \E s \in Sections : NavClick(s)

Resolve == \E i \in 1..Len(inflight) : \E r \in Responses(inflight[i]) :
              LoadMessagesResolve(i, r)

NoCharts == [channelsChart |-> 0, authorsChart |-> 0, timeChart |-> 0]

NotShown == [kind |-> "markup"]

\* state after the DOMContentLoaded handler: listeners set, first loadMessages issued
MessagesInit ==
    /\ currentPage = 1
    /\ inflight = <<FullUrl("/messages", MessagesParams(1))>>
    /\ messagesList = Loading
    /\ nextDisabled \in BOOLEAN
    /\ prevDisabled \in BOOLEAN
    /\ pageInfo = 0
    /\ event = "DOMContentLoaded"
    /\ lastResponse = NoResponse

StatsInit ==
    /\ statsIssued = 0
    /\ statsInflight = 0
    /\ totalMessages = ""
    /\ window = NoCharts
    /\ charts = <<>>

SearchInit ==
    /\ searchInflight = <<>>
    /\ searchResultsList = NotShown
    /\ lastSearchResponse = NoResponse

NotCalled == [done |-> FALSE]

Returned(value) == [done |-> TRUE, value |-> value]

PureIdle ==
    /\ input = <<>>
    /\ output = NotCalled

Init ==
    /\ MessagesInit
    /\ StatsInit
    /\ SearchInit
    /\ PureIdle
    /\ storeSize = 0

\* The messages section. A stats fetch issued by navigation stays in flight here:
\* its continuation writes chart state only and is followed in SpecStats.
Next == RefreshClick \/ PrevClick \/ NextClick \/ Navigate \/ Resolve

Spec == Init /\ [][Next]_vars

\* ------------------------------------------------- stable store, one load at a time
MaxStore == MaxPage * pageSize - 1

InitStable ==
    /\ MessagesInit
    /\ StatsInit
    /\ SearchInit
    /\ PureIdle
    /\ storeSize \in 0..MaxStore

\* Next is clicked only once the previous load has resolved
StableNextClick == inflight = <<>> /\ NextClick

StableResolve ==
    /\ inflight # <<>>
    /\ LoadMessagesResolve(1, HttpOk(StorePage(storeSize, inflight[1])))

NextStable == StableNextClick \/ StableResolve

SpecStable == InitStable /\ [][NextStable]_vars

\* ---------------------------------------------------------- searchMessages
SearchLoading == [kind |-> "search-loading"]

SearchEmpty == [kind |-> "search-empty-state"]

\* values the search form can hold
Queries == {"", " ", "cat"}

ChannelInputs == {"", "general"}

AuthorInputs == {"", "bob"}

LimitInputs == {"10"}

\* String.prototype.trim on the query inputs above
Trim(s) == IF s = " " THEN "" ELSE s

\* params of searchMessages: q and limit always, channel and author when non-empty
SearchQueryParams(q, limit, channel, author) ==
    <<[key |-> "q", val |-> Str(q)], [key |-> "limit", val |-> Str(limit)]>>
        \o (IF channel # "" THEN <<[key |-> "channel", val |-> Str(channel)]>> ELSE <<>>)
        \o (IF author # "" THEN <<[key |-> "author", val |-> Str(author)]>> ELSE <<>>)

\* searchMessages up to its await
SearchMessagesIssue(q, limit, channel, author) ==
    /\ searchResultsList' = SearchLoading
    /\ searchInflight' = Append(searchInflight,
           FullUrl("/messages/search", SearchQueryParams(q, limit, channel, author)))
    /\ UNCHANGED lastSearchResponse

\* faulty variant: length read without the null test, the handler stops on the TypeError
SearchResultsNullUnchecked(results) ==
    IF results.t = "null" THEN SearchLoading
    ELSE IF Len(results.v) = 0 THEN SearchEmpty
    ELSE Cards(results.v)

SearchResultsFor(results) ==
    IF results.t = "null" \/ Len(results.v) = 0 THEN SearchEmpty
    ELSE Cards(results.v)

\* searchMessages after its await, for the i-th search in flight
SearchMessagesResolve(i, response) ==
    /\ searchResultsList' = SearchResultsFor(FetchResult(response))
    /\ searchInflight' = SubSeq(searchInflight, 1, i - 1)
                            \o SubSeq(searchInflight, i + 1, Len(searchInflight))
    /\ lastSearchResponse' = response
    /\ event' = "searchResolve"
    /\ UNCHANGED <<msgVars, statsVars, storeSize, pureVars>>

\* searchButton click: nothing happens for a blank query
SearchClick ==
    \E q \in Queries, limit \in LimitInputs, channel \in ChannelInputs, author \in AuthorInputs :
        /\ IF Trim(q) # ""
           THEN /\ Len(searchInflight) < MaxSearchInflight
                /\ SearchMessagesIssue(q, limit, channel, author)
           ELSE UNCHANGED searchVars
        /\ event' = "search"
        /\ UNCHANGED <<msgVars, statsVars, storeSize, pureVars>>

SearchBody(n) == [i \in 1..n |-> i]

SearchResponses == Failures \cup {HttpOk(SearchBody(n)) : n \in {0, 2}}

SearchResolve == \E i \in 1..Len(searchInflight) : \E r \in SearchResponses :
                    SearchMessagesResolve(i, r)

\* The search section, with the message list being refreshed alongside
NextSearch == SearchClick \/ SearchResolve \/ RefreshClick \/ Resolve

SpecSearch == Init /\ [][NextSearch]_vars

\* ------------------------------------------------ fetchAPI on any params object
\* Keys that are no array indices: Object.keys lists them in insertion order
ParamKeys == {"q", "limit", "offset"}

ParamValues == {Null, Undefined, Str(""), Str(" "), Str("cat"), Num(0), Num(20)}

RECURSIVE DistinctKeys(_)
DistinctKeys(params) ==
    \/ params = <<>>
    \/ /\ \A i \in 2..Len(params) : params[i].key # params[1].key
       /\ DistinctKeys(Tail(params))

ParamObjects ==
    {params \in UNION {[1..n -> [key : ParamKeys, val : ParamValues]] : n \in 0..MaxParams} :
        DistinctKeys(params)}

InitQuery ==
    /\ MessagesInit
    /\ StatsInit
    /\ SearchInit
    /\ storeSize = 0
    /\ input \in ParamObjects
    /\ output = NotCalled

BuildUrl ==
    /\ ~output.done
    /\ output' = Returned(FullUrl("/messages", input))
    /\ event' = "fetchAPI"
    /\ UNCHANGED <<msgVars, statsVars, searchVars, storeSize, input>>

NextQuery == BuildUrl

SpecQuery == InitQuery /\ [][NextQuery]_vars

\* ---------------------------------------------------------------- escapeHTML
\* a string is the sequence of its characters
Alphabet == {"&", "<", ">", "\"", "'", "a", ";"}

\* str.replace(/ch/g, entity)
RECURSIVE ReplaceAll(_, _, _)
ReplaceAll(str, ch, entity) ==
    IF str = <<>> THEN <<>>
    ELSE (IF Head(str) = ch THEN entity ELSE <<Head(str)>>)
            \o ReplaceAll(Tail(str), ch, entity)

Amp == <<"&", "a", "m", "p", ";">>

Lt == <<"&", "l", "t", ";">>

Gt == <<"&", "g", "t", ";">>

Quot == <<"&", "q", "u", "o", "t", ";">>

Apos == <<"&", "#", "0", "3", "9", ";">>

\* faulty variant: & replaced after the other four
EscapeAmpLast(str) ==
    IF str = <<>> THEN <<>>
    ELSE ReplaceAll(ReplaceAll(ReplaceAll(ReplaceAll(ReplaceAll(str,
            "<", Lt), ">", Gt), "\"", Quot), "'", Apos), "&", Amp)

escapeHTML(str) ==
    IF str = <<>> THEN <<>>
    ELSE ReplaceAll(ReplaceAll(ReplaceAll(ReplaceAll(ReplaceAll(str,
            "&", Amp), "<", Lt), ">", Gt), "\"", Quot), "'", Apos)

InitEscape ==
    /\ MessagesInit
    /\ StatsInit
    /\ SearchInit
    /\ storeSize = 0
    /\ input \in UNION {[1..n -> Alphabet] : n \in 0..MaxLen}
    /\ output = NotCalled

Escape ==
    /\ ~output.done
    /\ output' = Returned(escapeHTML(input))
    /\ event' = "escapeHTML"
    /\ UNCHANGED <<msgVars, statsVars, searchVars, storeSize, input>>

NextEscape == Escape

SpecEscape == InitEscape /\ [][NextEscape]_vars

\* ------------------------------------------------------------ stats payload
\* A JSON object is kept as its members in the order the text lists them;
\* property enumeration puts array-index keys first, ascending, then the rest
\* in creation order.
JsonObject(members) == [t |-> "object", v |-> members]

JsonArray(elements) == [t |-> "array", v |-> elements]

\* canonical numeric strings "0", "1", ... are array indices
IndexNumerals == [n \in 0..99 |-> ToString(n)]

IsArrayIndex(key) == \E n \in DOMAIN IndexNumerals : IndexNumerals[n] = key

IndexValue(key) == CHOOSE n \in DOMAIN IndexNumerals : IndexNumerals[n] = key

RECURSIVE AscendingByIndex(_)
AscendingByIndex(members) ==
    IF members = <<>> THEN <<>>
    ELSE LET least == CHOOSE i \in 1..Len(members) :
                 \A j \in 1..Len(members) :
                     IndexValue(members[i][1]) <= IndexValue(members[j][1])
         IN <<members[least]>>
               \o AscendingByIndex(SubSeq(members, 1, least - 1)
                                      \o SubSeq(members, least + 1, Len(members)))

\* faulty variant: members enumerated in creation order whatever their keys
ObjectEntriesAsListed(object) == object.v

\* Object.entries(object)
ObjectEntries(object) ==
    AscendingByIndex(SelectSeq(object.v, LAMBDA m : IsArrayIndex(m[1])))
        \o SelectSeq(object.v, LAMBDA m : ~IsArrayIndex(m[1]))

\* field || {}
OrEmptyObject(field) == IF field.t \in {"undefined", "null"} THEN JsonObject(<<>>) ELSE field

\* channels and authors: Array.isArray(field) ? field : entries mapped to {name, count}
NormalizeNamed(field) ==
    IF field.t = "array" THEN field.v
    ELSE LET entries == ObjectEntries(OrEmptyObject(field))
         IN [i \in 1..Len(entries) |-> [name |-> entries[i][1], count |-> entries[i][2]]]

\* messages_per_day: the same with {date, count}
NormalizeDated(field) ==
    IF field.t = "array" THEN field.v
    ELSE LET entries == ObjectEntries(OrEmptyObject(field))
         IN [i \in 1..Len(entries) |-> [date |-> entries[i][1], count |-> entries[i][2]]]

\* new Date(date) as a day number, for the ISO dates of the payloads
Dates == {"2024-01-01", "2024-01-02", "2024-01-03"}

DateValue(date) ==
    CASE date = "2024-01-01" -> 19723
      [] date = "2024-01-02" -> 19724
      [] date = "2024-01-03" -> 19725

\* faulty variant: comparator with its operands swapped
CompareDatesSwapped(a, b) == DateValue(b.date) - DateValue(a.date)

\* comparator (a, b) => new Date(a.date) - new Date(b.date)
CompareDates(a, b) == DateValue(a.date) - DateValue(b.date)

\* Array.prototype.sort is stable: x goes behind every element not greater than it
RECURSIVE InsertSorted(_, _)
InsertSorted(x, sorted) ==
    IF sorted = <<>> THEN <<x>>
    ELSE IF CompareDates(x, Head(sorted)) < 0 THEN <<x>> \o sorted
    ELSE <<Head(sorted)>> \o InsertSorted(x, Tail(sorted))

RECURSIVE SortPrefix(_, _)
SortPrefix(sorted, rest) ==
    IF rest = <<>> THEN sorted
    ELSE SortPrefix(InsertSorted(Head(rest), sorted), Tail(rest))

\* timeData.sort((a, b) => new Date(a.date) - new Date(b.date))
SortByDate(timeData) == SortPrefix(<<>>, timeData)

\* --------------------------------------------------- the normaliser on any field
Names == {"general", "random", "7", "42"}

Counts == {1, 2}

RECURSIVE DistinctFirsts(_)
DistinctFirsts(listing) ==
    \/ listing = <<>>
    \/ /\ \A i \in 2..Len(listing) : listing[i][1] # listing[1][1]
       /\ DistinctFirsts(Tail(listing))

Listings(keys) == UNION {[1..n -> keys \X Counts] : n \in 0..MaxEntries}

\* the field as the payload carries it: an array of pairs, a mapping, or absent
FieldOf(in) ==
    CASE in.form = "array" /\ in.keyed = "name" ->
            JsonArray([i \in 1..Len(in.listing) |->
                          [name |-> in.listing[i][1], count |-> in.listing[i][2]]])
      [] in.form = "array" /\ in.keyed = "date" ->
            JsonArray([i \in 1..Len(in.listing) |->
                          [date |-> in.listing[i][1], count |-> in.listing[i][2]]])
      [] in.form = "object" -> JsonObject(in.listing)
      [] in.form = "missing" -> Undefined

NormInputs ==
    {[keyed |-> "name", form |-> f, listing |-> l] :
        f \in {"array", "object"}, l \in {x \in Listings(Names) : DistinctFirsts(x)}}
    \cup {[keyed |-> k, form |-> "missing", listing |-> <<>>] : k \in {"name", "date"}}
    \cup {[keyed |-> "date", form |-> "array", listing |-> l] : l \in Listings(Dates)}
    \cup {[keyed |-> "date", form |-> "object", listing |-> l] :
             l \in {x \in Listings(Dates) : DistinctFirsts(x)}}

InitNorm ==
    /\ MessagesInit
    /\ StatsInit
    /\ SearchInit
    /\ storeSize = 0
    /\ input \in NormInputs
    /\ output = NotCalled

NormalizeChartField ==
    /\ ~output.done
    /\ input.keyed = "name"
    /\ output' = Returned(NormalizeNamed(FieldOf(input)))
    /\ event' = "normalize"
    /\ UNCHANGED <<msgVars, statsVars, searchVars, storeSize, input>>

NormalizeTimeSeries ==
    /\ ~output.done
    /\ input.keyed = "date"
    /\ output' = Returned(SortByDate(NormalizeDated(FieldOf(input))))
    /\ event' = "normalize"
    /\ UNCHANGED <<msgVars, statsVars, searchVars, storeSize, input>>

NextNorm == NormalizeChartField \/ NormalizeTimeSeries

SpecNorm == InitNorm /\ [][NextNorm]_vars

\* ------------------------------------------------------------------ loadStats
Views == {"channelsChart", "authorsChart", "timeChart"}

\* faulty variant: the earlier instance is left alive
DestroyPriorSkipped(dom, view) == dom

\* if (window.xChart) window.xChart.destroy()
DestroyPrior(dom, view) ==
    IF dom.window[view] # 0
    THEN [dom EXCEPT !.charts[dom.window[view]].destroyed = TRUE]
    ELSE dom

\* createChannelsChart / createAuthorsChart / createTimeChart
CreateChart(dom, view, type, labels, data) ==
    LET torn == DestroyPrior(dom, view)
        chart == [view |-> view, type |-> type, labels |-> labels, data |-> data,
                  destroyed |-> FALSE]
    IN [window |-> [torn.window EXCEPT ![view] = Len(torn.charts) + 1],
        charts |-> Append(torn.charts, chart)]

\* stats.total_messages || 0
TotalOrZero(total) ==
    IF total.t \in {"undefined", "null"} \/ (total.t = "number" /\ total.v = 0)
    THEN Num(0) ELSE total

\* loadStats after its await
LoadStatsResolve(response) ==
    LET stats == FetchResult(response)
    IN /\ statsInflight > 0
       /\ statsInflight' = statsInflight - 1
       /\ IF stats.t = "null"
          THEN UNCHANGED <<totalMessages, window, charts>>
          ELSE LET channelsData == NormalizeNamed(stats.v.channels)
                   authorsData == NormalizeNamed(stats.v.authors)
                   timeData == SortByDate(NormalizeDated(stats.v.messages_per_day))
                   dom0 == [window |-> window, charts |-> charts]
                   dom1 == CreateChart(dom0, "channelsChart", "bar",
                               [i \in 1..Len(channelsData) |-> channelsData[i].name],
                               [i \in 1..Len(channelsData) |-> channelsData[i].count])
                   dom2 == CreateChart(dom1, "authorsChart", "pie",
                               [i \in 1..Len(authorsData) |-> authorsData[i].name],
                               [i \in 1..Len(authorsData) |-> authorsData[i].count])
                   dom3 == CreateChart(dom2, "timeChart", "line",
                               [i \in 1..Len(timeData) |-> timeData[i].date],
                               [i \in 1..Len(timeData) |-> timeData[i].count])
               IN /\ totalMessages' = ToJSString(TotalOrZero(stats.v.total_messages))
                  /\ window' = dom3.window
                  /\ charts' = dom3.charts
       /\ event' = "statsResolve"
       /\ UNCHANGED <<statsIssued, msgVars, searchVars, storeSize, pureVars>>

StatsPayloads ==
    {[total_messages |-> Num(5),
      channels |-> JsonObject(<<<<"general", 3>>, <<"random", 2>>>>),
      authors |-> JsonObject(<<>>),
      messages_per_day |-> JsonObject(<<>>)],
     [total_messages |-> Undefined,
      channels |-> JsonArray(<<[name |-> "general", count |-> 3]>>),
      authors |-> JsonArray(<<[name |-> "bob", count |-> 1]>>),
      messages_per_day |-> JsonArray(<<[date |-> "2024-01-03", count |-> 1],
                                       [date |-> "2024-01-01", count |-> 2]>>)],
     [total_messages |-> Num(0),
      channels |-> Undefined,
      authors |-> JsonObject(<<<<"bob", 2>>, <<"7", 1>>>>),
      messages_per_day |-> JsonObject(<<<<"2024-01-02", 1>>, <<"2024-01-01", 1>>>>)],
     [total_messages |-> Num(12),
      channels |-> JsonArray(<<>>),
      authors |-> JsonObject(<<<<"bob", 1>>>>),
      messages_per_day |-> Undefined]}

StatsResponses == Failures \cup {HttpOk(payload) : payload \in StatsPayloads}

StatsResolve == \E r \in StatsResponses : LoadStatsResolve(r)

NavStats == NavClick("stats")

\* The stats section: navigation to it, and the responses of its fetches
NextStats == NavStats \/ StatsResolve

SpecStats == Init /\ [][NextStats]_vars

\* ------------------------------------------- searchMessages on any form content
\* the request searchMessages builds from the four inputs, whatever they hold
SearchForms ==
    [q : Queries, limit : LimitInputs \cup {""}, channel : ChannelInputs,
     author : AuthorInputs]

InitSearchCall ==
    /\ MessagesInit
    /\ StatsInit
    /\ SearchInit
    /\ storeSize = 0
    /\ input \in SearchForms
    /\ output = NotCalled

BuildSearchUrl ==
    /\ ~output.done
    /\ output' = Returned(FullUrl("/messages/search",
                     SearchQueryParams(input.q, input.limit, input.channel, input.author)))
    /\ event' = "searchMessages"
    /\ UNCHANGED <<msgVars, statsVars, searchVars, storeSize, input>>

NextSearchCall == BuildSearchUrl

SpecSearchCall == InitSearchCall /\ [][NextSearchCall]_vars

\* ------------------------------------------------------------------ claims
RecordCount(response) ==
    IF response.kind = "http" /\ response.ok /\ response.parses
    THEN Len(response.json) ELSE 0

\* C1: once a loadMessages fetch has resolved, Next is disabled exactly when the
\* response that resolved last held fewer than pageSize records (a failed fetch
\* counting as zero), and enabled when it held pageSize records or more.
C1_NextDisabledIffShortPage ==
    lastResponse.kind # "none" =>
        (nextDisabled <=> RecordCount(lastResponse) < pageSize)

C1_Witness ==
    /\ event = "resolve"
    /\ RecordCount(lastResponse) >= pageSize
    /\ ~nextDisabled

FetchIssued == Len(inflight') = Len(inflight) + 1

C2_Step ==
    /\ event' = "next" => currentPage' = currentPage + 1 /\ FetchIssued
    /\ event' = "prev" =>
          IF currentPage > 1
          THEN currentPage' = currentPage - 1 /\ FetchIssued
          ELSE msgVars' = msgVars
    /\ event' \notin {"next", "prev"} => currentPage' = currentPage

\* C2: currentPage starts at 1 and stays >= 1; a Next click adds exactly 1 and
\* issues a fetch, a Prev click subtracts exactly 1 and issues a fetch only when
\* currentPage > 1 and otherwise changes nothing, and no other event changes it.
C2_PageCounter ==
    /\ currentPage = 1
    /\ [](currentPage >= 1)
    /\ [][C2_Step]_vars

C2_Witness ==
    /\ event = "prev"
    /\ currentPage = 1
    /\ pageInfo = 2
    /\ ~prevDisabled

ListUrl(page) ==
    <<"/messages", "?", "limit", "=", ToString(pageSize),
      "&", "offset", "=", ToString((page - 1) * pageSize)>>

\* C3: every list request carries limit = pageSize and offset =
\* (currentPage - 1) * pageSize with currentPage as it is when the request is
\* issued; on page 1 the offset is sent as 0.
C3_RequestWindow ==
    /\ [](\A i \in 1..Len(inflight) : \E page \in 1..MaxPage : inflight[i] = ListUrl(page))
    /\ [](event = "DOMContentLoaded" => inflight[Len(inflight)] = ListUrl(1))
    /\ [][Len(inflight') > Len(inflight) =>
             inflight'[Len(inflight')] = ListUrl(currentPage')]_vars

C3_Witness ==
    /\ event = "prev"
    /\ currentPage = 1
    /\ Len(inflight) = 2
    /\ inflight[2] = <<"/messages", "?", "limit", "=", "20", "&", "offset", "=", "0">>

FullPages == storeSize \div pageSize

\* C4: over a stable store with k full pages, loading one page at a time from
\* page 1, Next is enabled after the load of each page 1..k and disabled after
\* the load of page k+1, and navigation never passes page k+1.
C4_StopsAfterShortPage ==
    /\ currentPage <= FullPages + 1
    /\ event = "resolve" =>
          /\ (currentPage <= FullPages => ~nextDisabled)
          /\ (currentPage = FullPages + 1 => nextDisabled)

C4_Witness ==
    /\ event = "resolve"
    /\ FullPages = 2
    /\ storeSize > 2 * pageSize
    /\ currentPage = 3
    /\ nextDisabled
    /\ messagesList.kind = "cards"

Failed(response) ==
    \/ response.kind = "reject"
    \/ response.kind = "http" /\ (~response.ok \/ ~response.parses)

EmptyOk(response) ==
    /\ response.kind = "http" /\ response.ok /\ response.parses
    /\ Len(response.json) = 0

\* C5: a failed fetch leaves exactly what a successful fetch of zero records
\* leaves: in loadMessages the empty-state text with Next disabled, in
\* searchMessages the empty-state text.
C5_FailureShownAsEmpty ==
    /\ (event = "resolve" /\ (Failed(lastResponse) \/ EmptyOk(lastResponse))) =>
          /\ messagesList = EmptyState
          /\ nextDisabled
          /\ prevDisabled = (currentPage = 1)
          /\ pageInfo = currentPage
    /\ (event = "searchResolve"
          /\ (Failed(lastSearchResponse) \/ EmptyOk(lastSearchResponse))) =>
          searchResultsList = SearchEmpty

C5_Witness ==
    /\ event = "searchResolve"
    /\ Failed(lastSearchResponse)
    /\ searchResultsList = SearchEmpty
    /\ Failed(lastResponse)
    /\ messagesList = EmptyState
    /\ nextDisabled

Qualifies(val) ==
    /\ val.t \notin {"null", "undefined"}
    /\ ~(val.t = "string" /\ val.v = "")

Sent(val) ==
    IF val.t = "number" THEN ToString(val.v)
    ELSE IF val.v = " " THEN "+" ELSE val.v

\* C6: the URL built from a params object carries exactly the keys whose value is
\* not null, undefined or '', each with its value, in key order; 0 and a
\* whitespace-only string are sent; with no such key there is no '?'.
C6_QueryHoldsQualifyingKeys ==
    output.done =>
        LET kept == SelectSeq(input, LAMBDA p : Qualifies(p.val))
            url == output.value
        IN IF kept = <<>>
           THEN url = <<"/messages">>
           ELSE /\ Len(url) = 4 * Len(kept) + 1
                /\ url[1] = "/messages"
                /\ url[2] = "?"
                /\ \A j \in 1..Len(kept) :
                      /\ url[4 * j - 1] = kept[j].key
                      /\ url[4 * j] = "="
                      /\ url[4 * j + 1] = Sent(kept[j].val)
                      /\ j < Len(kept) => url[4 * j + 2] = "&"

C6_Witness ==
    /\ output.done
    /\ Len(input) = 2
    /\ input[1].val = Str("")
    /\ input[2].val = Num(0)
    /\ output.value = <<"/messages", "?", input[2].key, "=", "0">>

Entities == {Amp, Lt, Gt, Quot, Apos}

EntityOf(ch) ==
    CASE ch = "&" -> Amp
      [] ch = "<" -> Lt
      [] ch = ">" -> Gt
      [] ch = "\"" -> Quot
      [] ch = "'" -> Apos
      [] OTHER -> <<ch>>

RECURSIVE PerCharacter(_)
PerCharacter(str) ==
    IF str = <<>> THEN <<>> ELSE EntityOf(Head(str)) \o PerCharacter(Tail(str))

BeginsEntity(str, i) ==
    \E entity \in Entities :
        /\ i + Len(entity) - 1 <= Len(str)
        /\ SubSeq(str, i, i + Len(entity) - 1) = entity

\* C7: escapeHTML's output holds no literal < > " ', each & in it begins one of
\* the five entities, and it is the input with each character replaced by its
\* entity or kept, once.
C7_EscapeOnce ==
    output.done =>
        /\ \A i \in 1..Len(output.value) : output.value[i] \notin {"<", ">", "\"", "'"}
        /\ \A i \in 1..Len(output.value) :
              output.value[i] = "&" => BeginsEntity(output.value, i)
        /\ output.value = PerCharacter(input)

C7_Witness ==
    /\ output.done
    /\ input = <<"<", "&", "'">>
    /\ output.value = Lt \o Amp \o Apos

LiveCharts(view) ==
    {i \in 1..Len(charts) : charts[i].view = view /\ ~charts[i].destroyed}

Constructed(view) == {i \in 1..Len(charts) : charts[i].view = view}

\* C8: each chart view has at most one live instance, and its handle is the
\* instance constructed last for the view, which is not destroyed.
C8_OneLiveChartPerView ==
    \A view \in Views :
        /\ Cardinality(LiveCharts(view)) <= 1
        /\ window[view] = 0 <=> Constructed(view) = {}
        /\ window[view] # 0 =>
              /\ window[view] \in LiveCharts(view)
              /\ \A i \in Constructed(view) : i <= window[view]

C8_Witness ==
    /\ Len(charts) = 6
    /\ window = [channelsChart |-> 4, authorsChart |-> 5, timeChart |-> 6]
    /\ \A i \in 1..3 : charts[i].destroyed
    /\ \A i \in 4..6 : ~charts[i].destroyed

NamedPairs(listing) ==
    [i \in 1..Len(listing) |-> [name |-> listing[i][1], count |-> listing[i][2]]]

NumericNames == {"7", "42"}

NumericOrder(name) == IF name = "7" THEN 7 ELSE 42

\* C9 as stated: the array form and the mapping form of the same listing
\* normalise to the same sequence of {name, count} pairs, the listed one; a
\* missing field gives the empty sequence.
C9_Original ==
    (output.done /\ input.keyed = "name") => output.value = NamedPairs(input.listing)

\* C9 amended: the array form gives the listed pairs; the mapping form gives the
\* same pairs with the names that are canonical non-negative integers first, in
\* ascending numeric order, and the other names behind them in listed order, so
\* both forms agree when no name is such an integer; a missing field or an
\* empty mapping gives the empty sequence.
C9_SameSequenceButIntegerNamesFirst ==
    (output.done /\ input.keyed = "name") =>
        LET listed == NamedPairs(input.listing)
            got == output.value
            Numeric(pair) == pair.name \in NumericNames
            Other(pair) == pair.name \notin NumericNames
        IN /\ input.form = "missing" => got = <<>>
           /\ input.listing = <<>> => got = <<>>
           /\ input.form = "array" => got = listed
           /\ input.form = "object" =>
                 /\ (\A i \in 1..Len(listed) : Other(listed[i])) => got = listed
                 /\ Len(got) = Len(listed)
                 /\ \A i \in 1..Len(listed) : \E j \in 1..Len(got) : got[j] = listed[i]
                 /\ SelectSeq(got, Other) = SelectSeq(listed, Other)
                 /\ \A i, j \in 1..Len(got) :
                       i < j /\ Numeric(got[j]) =>
                           /\ Numeric(got[i])
                           /\ NumericOrder(got[i].name) < NumericOrder(got[j].name)

C9_Witness ==
    /\ output.done
    /\ input.form = "object"
    /\ input.listing = <<<<"random", 2>>, <<"42", 1>>, <<"7", 1>>>>
    /\ output.value = <<[name |-> "7", count |-> 1], [name |-> "42", count |-> 1],
                        [name |-> "random", count |-> 2]>>

DatedPairs(listing) ==
    [i \in 1..Len(listing) |-> [date |-> listing[i][1], count |-> listing[i][2]]]

Occurrences(x, seq) == Cardinality({i \in 1..Len(seq) : seq[i] = x})

IsPermutation(a, b) ==
    /\ Len(a) = Len(b)
    /\ \A i \in 1..Len(a) : Occurrences(a[i], a) = Occurrences(a[i], b)

\* ISO dates of one length compare as their text does: day by day
DayOf(date) ==
    CASE date = "2024-01-01" -> 1
      [] date = "2024-01-02" -> 2
      [] date = "2024-01-03" -> 3

\* C10 as stated: what createTimeChart receives is a permutation of the input
\* entries that is strictly ascending by date, for every payload.
C10_Original ==
    (output.done /\ input.keyed = "date") =>
        /\ IsPermutation(output.value, DatedPairs(input.listing))
        /\ \A i \in 1..(Len(output.value) - 1) :
              DayOf(output.value[i].date) < DayOf(output.value[i + 1].date)

\* C10 amended: what createTimeChart receives is a permutation of the input
\* entries in ascending date order, entries of one date in their input order;
\* it is strictly ascending when no two entries share a date, as in every
\* mapping.
C10_AscendingStable ==
    (output.done /\ input.keyed = "date") =>
        LET listed == DatedPairs(input.listing)
            got == output.value
        IN /\ IsPermutation(got, listed)
           /\ \A i \in 1..(Len(got) - 1) : DayOf(got[i].date) <= DayOf(got[i + 1].date)
           /\ \A d \in Dates :
                 SelectSeq(got, LAMBDA x : x.date = d)
                    = SelectSeq(listed, LAMBDA x : x.date = d)
           /\ (input.form = "object"
                    \/ \A i, j \in 1..Len(listed) : i # j => listed[i].date # listed[j].date)
                 => \A i \in 1..(Len(got) - 1) :
                       DayOf(got[i].date) < DayOf(got[i + 1].date)

C10_Witness ==
    /\ output.done
    /\ input.form = "array"
    /\ input.listing = <<<<"2024-01-03", 1>>, <<"2024-01-01", 1>>, <<"2024-01-01", 2>>>>
    /\ output.value = <<[date |-> "2024-01-01", count |-> 1],
                        [date |-> "2024-01-01", count |-> 2],
                        [date |-> "2024-01-03", count |-> 1]>>

\* C11: requests overlap freely, a new one leaving the earlier ones in flight, and
\* each response overwrites the list and the Next flag as it resolves: once none
\* is in flight, the list and the Next flag are those of the response that
\* resolved last, whichever request it answers.
C11_LastResolvedWins ==
    /\ [][Len(inflight') > Len(inflight) =>
             SubSeq(inflight', 1, Len(inflight)) = inflight]_vars
    /\ []((inflight = <<>> /\ lastResponse.kind # "none") =>
             /\ IF RecordCount(lastResponse) = 0
                THEN messagesList = EmptyState
                ELSE messagesList = [kind |-> "cards", cards |-> lastResponse.json]
             /\ nextDisabled <=> RecordCount(lastResponse) < pageSize)

\* the request of page 1 was issued first and answered last: page 2 is current
\* and the full first page is shown
C11_Witness ==
    /\ inflight = <<>>
    /\ currentPage = 2
    /\ messagesList.kind = "cards"
    /\ messagesList.cards[1] = 1
    /\ Len(messagesList.cards) = pageSize
    /\ ~nextDisabled

\* C12 as stated: while any loadMessages fetch is in flight, also one issued
\* during an earlier one, the list shows the loading placeholder.
C12_Original == inflight # <<>> => messagesList = Loading

\* C12 amended: the list shows the loading placeholder from the moment a fetch
\* is issued until the first loadMessages response that arrives after it,
\* whichever request that response answers; for a request with others in
\* flight this can be before its own response.
C12_PlaceholderUntilNextResponse ==
    /\ [][Len(inflight') > Len(inflight) => messagesList' = Loading]_vars
    /\ [][(messagesList = Loading /\ Len(inflight') >= Len(inflight)) =>
             messagesList' = Loading]_vars
    /\ [](messagesList = Loading => inflight # <<>>)

\* a second request was issued over cards already shown, the first still in flight
C12_Witness ==
    /\ Len(inflight) = 2
    /\ messagesList = Loading
    /\ event = "refresh"
    /\ lastResponse.kind = "http"
    /\ RecordCount(lastResponse) > 0

HasParam(url, key) ==
    \E i \in 1..(Len(url) - 2) : url[i] = key /\ url[i + 1] = "=" /\ url[i - 1] \in {"?", "&"}

\* C13 as stated: with an empty query string q is still a parameter of the
\* request, while channel and author are left out when empty.
C13_Original ==
    output.done =>
        /\ input.q = "" => HasParam(output.value, "q")
        /\ input.channel = "" => ~HasParam(output.value, "channel")
        /\ input.author = "" => ~HasParam(output.value, "author")

\* C13 amended: q is a parameter of the request exactly when the query string
\* is not empty (a whitespace-only one is sent), like limit, channel and author:
\* an empty q is left out as they are.
C13_EmptyQueryLeftOut ==
    output.done =>
        /\ HasParam(output.value, "q") <=> input.q # ""
        /\ HasParam(output.value, "limit") <=> input.limit # ""
        /\ HasParam(output.value, "channel") <=> input.channel # ""
        /\ HasParam(output.value, "author") <=> input.author # ""
        /\ (input.q = "" /\ input.limit = "" /\ input.channel = "" /\ input.author = "")
              => output.value = <<"/messages/search">>

C13_Witness ==
    /\ output.done
    /\ input.q = ""
    /\ input.author = ""
    /\ output.value = <<"/messages/search", "?", "limit", "=", "10",
                        "&", "channel", "=", "general">>

\* C14: whenever no loadMessages fetch is in flight and at least one has
\* resolved, the page label shows currentPage and Prev is disabled exactly when
\* currentPage = 1, whatever the order of clicks and responses.
C14_LabelAndPrevFollowCounter ==
    (inflight = <<>> /\ lastResponse.kind # "none") =>
        /\ pageInfo = currentPage
        /\ prevDisabled <=> currentPage = 1

\* back on page 1 with the response for page 2 arrived last: its records are
\* shown under the label of page 1
C14_Witness ==
    /\ inflight = <<>>
    /\ currentPage = 1
    /\ pageInfo = 1
    /\ prevDisabled
    /\ messagesList.kind = "cards"
    /\ messagesList.cards[1] = pageSize + 1

====
